---------------------------- MODULE Spec2Model ----------------------------
(***************************************************************************)
(* A model of src/src/data/database.py: the Field / PrimaryKey / Table     *)
(* value objects and the Database layer that builds SQL text from them,    *)
(* executes it on a file-backed sqlite store and pickles its table map to  *)
(* a side file on every close.                                             *)
(*                                                                         *)
(* Python values are records [k, n, s]: k is "int", "str" or "none", n the *)
(* integer, s the characters of the string (a tuple of one-character       *)
(* strings, so that quoting and tokenising are computed on characters).    *)
(* Values held by the store are records of the same shape with k "int",    *)
(* "text" or "null".                                                       *)
(***************************************************************************)
EXTENDS Integers, Sequences, FiniteSets, TLC

VARIABLES store, file, db, last

vars == <<store, file, db, last>>

-----------------------------------------------------------------------------
(* Bounds of the model *)

\* rows held by the store, over all its tables
MaxRows == 2
\* largest rowid the store hands out
MaxId == 2
\* rows held by the store when two Database objects share it
MaxRowsShared == 0

-----------------------------------------------------------------------------
(* Python values and store values *)

PyInt(n) == [k |-> "int", n |-> n, s |-> <<>>]
PyStr(s) == [k |-> "str", n |-> 0, s |-> s]
PyNone == [k |-> "none", n |-> 0, s |-> <<>>]

SqlInt(n) == [k |-> "int", n |-> n, s |-> <<>>]
SqlText(s) == [k |-> "text", n |-> 0, s |-> s]
SqlNull == [k |-> "null", n |-> 0, s |-> <<>>]

Quote == "'"
Digits == <<"0", "1", "2", "3", "4", "5", "6", "7", "8", "9">>
IsDigit(c) == \E i \in 1..10 : Digits[i] = c
DigitVal(c) == (CHOOSE i \in 1..10 : Digits[i] = c) - 1
Letters == {"a", "b", "d", "e", "g", "i", "m", "n", "o", "r", "z", "N"}
IsAlpha(c) == c \in Letters
LowerChar(c) == IF c = "N" THEN "n" ELSE c

\* the decimal rendering of a natural number
RECURSIVE IntToStr(_)
IntToStr(n) ==
    IF n < 10 THEN <<Digits[n + 1]>>
    ELSE IntToStr(n \div 10) \o <<Digits[(n % 10) + 1]>>

\* the number a run of decimal digits denotes
RECURSIVE StrToInt(_)
StrToInt(s) ==
    IF s = <<>> THEN 0
    ELSE 10 * StrToInt(SubSeq(s, 1, Len(s) - 1)) + DigitVal(s[Len(s)])

AllDigits(s) == s # <<>> /\ \A i \in 1..Len(s) : IsDigit(s[i])

\* str(value) and the f-string rendering {value}
Format(v) ==
    IF v.k = "int" THEN IntToStr(v.n)
    ELSE IF v.k = "none" THEN <<"N", "o", "n", "e">>
    ELSE v.s

\* identifiers, as the characters they are written with in a statement
NameChars(name) ==
    CASE name = "id" -> <<"i", "d">>
      [] name = "name" -> <<"n", "a", "m", "e">>
      [] name = "age" -> <<"a", "g", "e">>
      [] name = "zz" -> <<"z", "z">>
      [] OTHER -> <<name>>

-----------------------------------------------------------------------------
(* Field, PrimaryKey, Table *)

Field(name, dtype, null, others) ==
    [cls |-> "Field", name |-> name, dtype |-> dtype, null |-> null,
     others |-> others]

PrimaryKey(name, dtype, null, others) ==
    [cls |-> "PrimaryKey", name |-> name, dtype |-> dtype, null |-> null,
     others |-> others]

\* others is None or a list; None is written as the empty list with isList FALSE
NoOthers == [isList |-> FALSE, items |-> <<>>]

FieldToList(f) ==
    <<f.name, f.dtype>>
      \o (IF ~f.null THEN <<"NOT NULL">> ELSE <<>>)
      \o (IF f.others.isList THEN f.others.items ELSE <<>>)

InsertAt(s, i, x) == SubSeq(s, 1, i) \o <<x>> \o SubSeq(s, i + 1, Len(s))

\* to_list without the override
PrimaryKeyToListNoInsert(f) == FieldToList(f)

PrimaryKeyToList(f) == InsertAt(FieldToList(f), 2, "PRIMARY KEY")

to_list(f) == IF f.cls = "PrimaryKey" THEN PrimaryKeyToList(f) ELSE FieldToList(f)

RECURSIVE JoinStr(_, _)
JoinStr(sep, xs) ==
    IF xs = <<>> THEN ""
    ELSE IF Len(xs) = 1 THEN xs[1]
    ELSE xs[1] \o sep \o JoinStr(sep, Tail(xs))

to_str(f) == JoinStr(" ", to_list(f))

id_as_primary == PrimaryKey("id", "INTEGER", FALSE, NoOthers)

EmptyMap == [x \in {} |-> x]

RECURSIVE FieldsDict(_)
FieldsDict(fs) ==
    IF fs = <<>> THEN EmptyMap
    ELSE LET rest == FieldsDict(SubSeq(fs, 1, Len(fs) - 1))
             f == fs[Len(fs)]
         IN  (f.name :> f) @@ rest

Table(tname, primary, fields) ==
    [name |-> tname, primary |-> primary,
     fields |-> FieldsDict(<<primary>> \o fields)]

\* dtype.lower() for the declared types in use
LowerType(dtype) ==
    CASE dtype = "TEXT" -> "text"
      [] dtype = "INTEGER" -> "integer"
      [] dtype = "VARCHAR" -> "varchar"
      [] OTHER -> dtype

HasChar(lower) == lower \in {"varchar", "char"}

\* Table.revise_data, given that the field is declared
revise_data(table, field, value) ==
    LET dtype == LowerType(table.fields[field].dtype)
    IN  IF dtype = "text" \/ HasChar(dtype)
        THEN PyStr(<<Quote>> \o Format(value) \o <<Quote>>)
        ELSE value

-----------------------------------------------------------------------------
(* The store: the part of sqlite the statements of database.py reach.      *)
(* The fixed words of a statement (its verb, table name and clause         *)
(* keywords) are taken from the statement's shape; the interpolated text   *)
(* (value lists, SET lists and WHERE expressions) is tokenised and parsed  *)
(* character by character, as the store does.                              *)

Tok(k, s, n) == [k |-> k, s |-> s, n |-> n]

\* the closing quote of a string literal whose body starts at i ('' is an
\* escaped quote); ok is FALSE when the literal is not terminated
RECURSIVE ScanStr(_, _, _)
ScanStr(cs, i, acc) ==
    IF i > Len(cs) THEN [ok |-> FALSE, next |-> i, s |-> acc]
    ELSE IF cs[i] = Quote
         THEN IF i + 1 <= Len(cs) /\ cs[i + 1] = Quote
              THEN ScanStr(cs, i + 2, Append(acc, Quote))
              ELSE [ok |-> TRUE, next |-> i + 1, s |-> acc]
         ELSE ScanStr(cs, i + 1, Append(acc, cs[i]))

RECURSIVE DigitsEnd(_, _)
DigitsEnd(cs, i) ==
    IF i + 1 <= Len(cs) /\ IsDigit(cs[i + 1]) THEN DigitsEnd(cs, i + 1) ELSE i

RECURSIVE WordEnd(_, _)
WordEnd(cs, i) ==
    IF i + 1 <= Len(cs) /\ (IsAlpha(cs[i + 1]) \/ IsDigit(cs[i + 1]))
    THEN WordEnd(cs, i + 1) ELSE i

LowerWord(w) == [i \in 1..Len(w) |-> LowerChar(w[i])]

WordTok(w) ==
    IF LowerWord(w) = <<"o", "r">> THEN Tok("or", <<>>, 0)
    ELSE IF LowerWord(w) = <<"a", "n", "d">> THEN Tok("and", <<>>, 0)
    ELSE Tok("id", w, 0)

BadTok == Tok("bad", <<>>, 0)

RECURSIVE Tokens(_, _)
Tokens(cs, i) ==
    IF i > Len(cs) THEN <<>>
    ELSE LET c == cs[i] IN
      IF c = " " THEN Tokens(cs, i + 1)
      ELSE IF c = Quote
        THEN LET r == ScanStr(cs, i + 1, <<>>) IN
             IF r.ok THEN <<Tok("str", r.s, 0)>> \o Tokens(cs, r.next)
             ELSE <<BadTok>>
      ELSE IF IsDigit(c)
        THEN LET j == DigitsEnd(cs, i) IN
             IF j + 1 <= Len(cs) /\ IsAlpha(cs[j + 1]) THEN <<BadTok>>
             ELSE <<Tok("int", <<>>, StrToInt(SubSeq(cs, i, j)))>> \o Tokens(cs, j + 1)
      ELSE IF IsAlpha(c)
        THEN LET j == WordEnd(cs, i) IN
             <<WordTok(SubSeq(cs, i, j))>> \o Tokens(cs, j + 1)
      ELSE IF c \in {",", "="} THEN <<Tok(c, <<>>, 0)>> \o Tokens(cs, i + 1)
      ELSE IF c \in {"<", ">"} /\ i + 1 <= Len(cs) /\ cs[i + 1] = "="
        THEN <<Tok(c \o "=", <<>>, 0)>> \o Tokens(cs, i + 2)
      ELSE <<BadTok>>

Tokenize(cs) == Tokens(cs, 1)

HasBad(toks) == \E i \in 1..Len(toks) : toks[i].k = "bad"

\* the runs of toks between the tokens of kind k
RECURSIVE Split(_, _)
Split(toks, k) ==
    IF \A i \in 1..Len(toks) : toks[i].k # k THEN <<toks>>
    ELSE LET i == CHOOSE j \in 1..Len(toks) :
                     toks[j].k = k /\ \A h \in 1..(j - 1) : toks[h].k # k
         IN  <<SubSeq(toks, 1, i - 1)>> \o Split(SubSeq(toks, i + 1, Len(toks)), k)

\* column affinity of a declared type
Affinity(dtype) ==
    CASE dtype = "INTEGER" -> "num"
      [] dtype = "TEXT" -> "text"
      [] dtype = "VARCHAR" -> "text"
      [] OTHER -> "num"

ApplyNum(v) == IF v.k = "text" /\ AllDigits(v.s) THEN SqlInt(StrToInt(v.s)) ELSE v
ApplyText(v) == IF v.k = "int" THEN SqlText(IntToStr(v.n)) ELSE v
StoreAs(aff, v) == IF aff = "text" THEN ApplyText(v) ELSE ApplyNum(v)

Ascii == <<" ", "'", ",", "0", "1", "2", "3", "4", "5", "6", "7", "8", "9",
           "<", "=", ">", "N", "a", "b", "d", "e", "g", "i", "m", "n", "o",
           "r", "z">>
Code(c) == CHOOSE i \in 1..Len(Ascii) : Ascii[i] = c

RECURSIVE LexLeq(_, _)
LexLeq(x, y) ==
    IF x = <<>> THEN TRUE
    ELSE IF y = <<>> THEN FALSE
    ELSE IF Code(x[1]) # Code(y[1]) THEN Code(x[1]) < Code(y[1])
    ELSE LexLeq(Tail(x), Tail(y))

\* x <= y in the store's order: integers before text
LeqVal(x, y) ==
    IF x.k = "int" /\ y.k = "int" THEN x.n <= y.n
    ELSE IF x.k = "text" /\ y.k = "text" THEN LexLeq(x.s, y.s)
    ELSE x.k = "int"

SqlBool(b) == IF b THEN SqlInt(1) ELSE SqlInt(0)

\* x <= y (op "<=") or x >= y (op ">=")
LeqBool(op, x, y) ==
    SqlBool(LeqVal(IF op = "<=" THEN x ELSE y, IF op = "<=" THEN y ELSE x))

\* the affinity conversion of one operand of a comparison, given the other's
Coerce(v, aff, other) ==
    IF other = "num" /\ aff # "num" THEN ApplyNum(v)
    ELSE IF other = "text" /\ aff = "none" THEN ApplyText(v)
    ELSE v

CompareVals(op, x, y) ==
    IF x.k = "null" \/ y.k = "null" THEN SqlNull
    ELSE IF op = "=" THEN SqlBool(x = y)
    ELSE LeqBool(op, x, y)

\* a comparison of two operands [v, aff]
Compare(op, a, b) == CompareVals(op, Coerce(a.v, a.aff, b.aff), Coerce(b.v, b.aff, a.aff))

\* the truth of a value: "T", "F" or "N" (unknown)
Truth(v) ==
    IF v.k = "null" THEN "N"
    ELSE IF v.k = "int" THEN (IF v.n # 0 THEN "T" ELSE "F")
    ELSE IF v.s # <<>> /\ IsDigit(v.s[1])
              /\ StrToInt(SubSeq(v.s, 1, DigitsEnd(v.s, 1))) # 0 THEN "T"
    ELSE "F"

FromTruth(t) == IF t = "N" THEN SqlNull ELSE SqlBool(t = "T")

Fail == [ok |-> FALSE, v |-> SqlNull, aff |-> "none"]
Val(v, aff) == [ok |-> TRUE, v |-> v, aff |-> aff]

\* row maps the columns in scope to their values, affs to their affinities
EvalPrim(tok, row, affs) ==
    IF tok.k = "str" THEN Val(SqlText(tok.s), "none")
    ELSE IF tok.k = "int" THEN Val(SqlInt(tok.n), "none")
    ELSE IF tok.k = "id" /\ \E c \in DOMAIN row : NameChars(c) = tok.s
         THEN Val(row[CHOOSE c \in DOMAIN row : NameChars(c) = tok.s],
                  affs[CHOOSE c \in DOMAIN row : NameChars(c) = tok.s])
    ELSE Fail

CmpOps == {"=", "<=", ">="}

\* cmp := operand [(= | <= | >=) operand], ops the values of its tokens
CmpOf(toks, ops) ==
    IF Len(toks) = 1 THEN ops[1]
    ELSE IF Len(toks) = 3 /\ toks[2].k \in CmpOps /\ ops[1].ok /\ ops[3].ok
         THEN Val(Compare(toks[2].k, ops[1], ops[3]), "none")
    ELSE Fail

EvalCmp(toks, row, affs) ==
    CmpOf(toks, [i \in 1..Len(toks) |-> EvalPrim(toks[i], row, affs)])

\* the three-valued AND / OR of the truths ts
Junction(kind, ts) ==
    IF kind = "and"
    THEN (IF "F" \in ts THEN "F" ELSE IF "N" \in ts THEN "N" ELSE "T")
    ELSE (IF "T" \in ts THEN "T" ELSE IF "N" \in ts THEN "N" ELSE "F")

\* the value of parts joined by AND or by OR, rs the values of the parts
Joined(kind, rs) ==
    IF \E i \in 1..Len(rs) : ~rs[i].ok THEN Fail
    ELSE IF Len(rs) = 1 THEN rs[1]
    ELSE Val(FromTruth(Junction(kind, {Truth(rs[i].v) : i \in 1..Len(rs)})), "none")

AndParts(parts, row, affs) ==
    Joined("and", [i \in 1..Len(parts) |-> EvalCmp(parts[i], row, affs)])

EvalAnd(toks, row, affs) == AndParts(Split(toks, "and"), row, affs)

OrParts(parts, row, affs) ==
    Joined("or", [i \in 1..Len(parts) |-> EvalAnd(parts[i], row, affs)])

\* expr := and-expr {OR and-expr}; and-expr := cmp {AND cmp}
EvalExpr(toks, row, affs) ==
    IF HasBad(toks) THEN Fail ELSE OrParts(Split(toks, "or"), row, affs)

\* what the store keeps of one column clause: the name is the first token,
\* the declared type the second, the constraints the rest
ColumnOf(toks) ==
    [name |-> toks[1], aff |-> Affinity(toks[2]),
     pk |-> \E i \in 3..Len(toks) : toks[i] = "PRIMARY KEY",
     notnull |-> \E i \in 3..Len(toks) : toks[i] = "NOT NULL"]

ColNames(t) == {t.cols[i].name : i \in 1..Len(t.cols)}
ColOf(t, c) == t.cols[CHOOSE i \in 1..Len(t.cols) : t.cols[i].name = c]
ColAffs(t) == [c \in ColNames(t) |-> ColOf(t, c).aff]
NullRow(t) == [c \in ColNames(t) |-> SqlNull]
PkName(t) == t.cols[CHOOSE i \in 1..Len(t.cols) : t.cols[i].pk].name

\* the result of a statement: ok is FALSE when the store raises an error,
\* st is the store afterwards, rows what fetchall() returns
Raise(st) == [ok |-> FALSE, st |-> st, rows |-> <<>>]
Done(st, rows) == [ok |-> TRUE, st |-> st, rows |-> rows]

RECURSIVE CountRows(_, _)
CountRows(st, S) ==
    IF S = {} THEN 0
    ELSE Cardinality(st[CHOOSE t \in S : TRUE].rows)
            + CountRows(st, S \ {CHOOSE t \in S : TRUE})

StoredRows(st) == CountRows(st, DOMAIN st)

NewTable(all) ==
    [cols |-> [i \in 1..Len(all) |-> ColumnOf(to_list(all[i]))],
     sql |-> [i \in 1..Len(all) |-> to_str(all[i])],
     rows |-> {}]

\* CREATE TABLE tname(<primary clause>, <field clauses joined by ",">);
\* an empty field list leaves "(..., )", which is a syntax error
ExecCreate(st, tname, primary, fields) ==
    IF tname \in DOMAIN st \/ fields = <<>> THEN Raise(st)
    ELSE Done((tname :> NewTable(<<primary>> \o fields)) @@ st, <<>>)

FromSql(v) ==
    IF v.k = "null" THEN PyNone
    ELSE IF v.k = "int" THEN PyInt(v.n)
    ELSE PyStr(v.s)

RowTuple(t, row) == [i \in 1..Len(t.cols) |-> FromSql(row[t.cols[i].name])]

FirstRow(pk, S) == CHOOSE r \in S : \A q \in S : r[pk].n <= q[pk].n

\* the rows of S in rowid order, as fetchall() returns them
RECURSIVE Fetch(_, _)
Fetch(t, S) ==
    IF S = {} THEN <<>>
    ELSE <<RowTuple(t, FirstRow(PkName(t), S))>> \o Fetch(t, S \ {FirstRow(PkName(t), S)})

\* the value of a WHERE expression on every row, and on a row of NULLs to
\* tell whether the expression compiles
WhereEval(t, toks) ==
    [r \in t.rows \cup {NullRow(t)} |-> EvalExpr(toks, r, ColAffs(t))]

\* the rows a WHERE expression selects; an empty expression selects all
Selected(t, toks, ev) ==
    IF toks = <<>> THEN t.rows ELSE {r \in t.rows : Truth(ev[r].v) = "T"}

Compiles(t, toks, ev) == toks = <<>> \/ ev[NullRow(t)].ok

MaxOf(S) == CHOOSE n \in S : \A m \in S : m <= n

NextId(t) == IF t.rows = {} THEN 1 ELSE 1 + MaxOf({r[PkName(t)].n : r \in t.rows})

\* the row an INSERT adds: the given columns take their values, the primary
\* key the next rowid, the others NULL
NewRow(t, keys, vals) ==
    [c \in ColNames(t) |->
        IF \E i \in 1..Len(keys) : keys[i] = c
        THEN StoreAs(ColOf(t, c).aff, vals[CHOOSE i \in 1..Len(keys) : keys[i] = c].v)
        ELSE IF ColOf(t, c).pk THEN SqlInt(NextId(t))
        ELSE SqlNull]

InsertRow(st, tname, t, row) ==
    IF \E c \in ColNames(t) : ColOf(t, c).notnull /\ row[c].k = "null"
    THEN Raise(st)
    ELSE Done([st EXCEPT ![tname].rows = @ \cup {row}], <<>>)

InsertVals(st, tname, t, keys, toks, vals) ==
    IF \/ HasBad(toks)
       \/ Len(vals) # Len(keys)
       \/ \E i \in 1..Len(keys) : keys[i] \notin ColNames(t)
       \/ \E i \in 1..Len(vals) : ~vals[i].ok
    THEN Raise(st)
    ELSE InsertRow(st, tname, t, NewRow(t, keys, vals))

InsertExprs(st, tname, keys, toks, exprs) ==
    InsertVals(st, tname, st[tname], keys, toks,
               [i \in 1..Len(exprs) |-> EvalExpr(exprs[i], EmptyMap, EmptyMap)])

InsertToks(st, tname, keys, toks) == InsertExprs(st, tname, keys, toks, Split(toks, ","))

\* INSERT INTO tname (keys) VALUES (text); keys never name the primary key,
\* which the store fills with the next rowid
ExecInsert(st, tname, keys, text) ==
    IF tname \notin DOMAIN st THEN Raise(st)
    ELSE InsertToks(st, tname, keys, Tokenize(text))

SelectWhere(st, t, toks, ev) ==
    IF ~Compiles(t, toks, ev) THEN Raise(st)
    ELSE Done(st, Fetch(t, Selected(t, toks, ev)))

SelectToks(st, t, toks) == SelectWhere(st, t, toks, WhereEval(t, toks))

\* SELECT * from tname [where <text>]
ExecSelect(st, tname, where) ==
    IF tname \notin DOMAIN st THEN Raise(st)
    ELSE SelectToks(st, st[tname], Tokenize(where))

DeleteWhere(st, tname, t, toks, ev) ==
    IF toks = <<>> \/ ~Compiles(t, toks, ev) THEN Raise(st)
    ELSE Done([st EXCEPT ![tname].rows = @ \ Selected(t, toks, ev)], <<>>)

DeleteToks(st, tname, t, toks) == DeleteWhere(st, tname, t, toks, WhereEval(t, toks))

\* DELETE from tname where <text>
ExecDelete(st, tname, where) ==
    IF tname \notin DOMAIN st THEN Raise(st)
    ELSE DeleteToks(st, tname, st[tname], Tokenize(where))

\* one "column = expr" of a SET list has this shape
AssignShape(t, toks) ==
    /\ Len(toks) >= 3
    /\ toks[1].k = "id"
    /\ \E c \in ColNames(t) : NameChars(c) = toks[1].s
    /\ toks[2].k = "="

AssignCol(t, toks) == CHOOSE c \in ColNames(t) : NameChars(c) = toks[1].s

\* the values of the SET expressions on every row, and on a row of NULLs
SetEval(t, sets) ==
    [r \in t.rows \cup {NullRow(t)} |->
        [i \in 1..Len(sets) |->
            EvalExpr(SubSeq(sets[i], 3, Len(sets[i])), r, ColAffs(t))]]

\* the row r after the assignments (the last assignment to a column wins)
Assigned(t, sets, vals, r) ==
    [c \in ColNames(t) |->
        IF \E i \in 1..Len(sets) : AssignCol(t, sets[i]) = c
        THEN StoreAs(ColOf(t, c).aff,
                     vals[CHOOSE i \in 1..Len(sets) :
                             /\ AssignCol(t, sets[i]) = c
                             /\ \A j \in (i + 1)..Len(sets) : AssignCol(t, sets[j]) # c].v)
        ELSE r[c]]

UpdateRows(st, tname, t, sets, sev, hit) ==
    Done([st EXCEPT ![tname].rows = (@ \ hit) \cup {Assigned(t, sets, sev[r], r) : r \in hit}],
         <<>>)

UpdateWhere(st, tname, t, sets, sev, toks, ev) ==
    IF (\E i \in 1..Len(sets) : ~sev[NullRow(t)][i].ok) \/ ~Compiles(t, toks, ev)
    THEN Raise(st)
    ELSE UpdateRows(st, tname, t, sets, sev, Selected(t, toks, ev))

UpdateSets(st, tname, t, sets, toks) ==
    IF \E i \in 1..Len(sets) : ~AssignShape(t, sets[i]) THEN Raise(st)
    ELSE UpdateWhere(st, tname, t, sets, SetEval(t, sets), toks, WhereEval(t, toks))

UpdateToks(st, tname, t, stoks, toks) ==
    IF HasBad(stoks) THEN Raise(st)
    ELSE UpdateSets(st, tname, t, Split(stoks, ","), toks)

\* UPDATE tname set <set text> [where <text>]; the SET list never names the
\* primary key
ExecUpdate(st, tname, setText, where) ==
    IF tname \notin DOMAIN st THEN Raise(st)
    ELSE UpdateToks(st, tname, st[tname], Tokenize(setText), Tokenize(where))

-----------------------------------------------------------------------------
(* Database *)

\* the key argument of update when it is None
NoneKey == "<None>"

\* pickle.dump / pickle.load of the table map: the file holds the items
NoFile == [exists |-> FALSE, items |-> {}]
Dump(tables) == [exists |-> TRUE, items |-> {<<n, tables[n]>> : n \in DOMAIN tables}]
Load(f) == [n \in {p[1] : p \in f.items} |-> (CHOOSE p \in f.items : p[1] = n)[2]]

NoDatabase == [alive |-> FALSE, tables |-> EmptyMap, conn |-> "closed"]

connect(d) == [d EXCEPT !.conn = "open"]
close(d) == [d EXCEPT !.conn = "closed"]

\* close() that merges the map into the file instead of replacing it
closeFileMerge(d, f) == [exists |-> TRUE, items |-> f.items \cup Dump(d.tables).items]

\* close() that leaves the side file as it is
closeFileKeep(d, f) == f

\* what close() leaves in the side file: the dump of the map, replacing
\* what the file held
closeFile(d, f) == Dump(d.tables)

\* what __init__ reads from the side file
initTables(f) == IF f.exists THEN Load(f) ELSE EmptyMap

\* the record of the last call: which Database, which method, and how it
\* ended ("ok", "KeyError", "TypeError", "StoreError")
Call(i, op) == [inst |-> i, op |-> op, outcome |-> "ok"]

\* the body of a handler: how it ended, the store and the table map it
\* leaves, the rows it returns
Body(outcome, st, tables, rows) ==
    [outcome |-> outcome, st |-> st, tables |-> tables, rows |-> rows]

\* a handler is connect(); body; close(): close() is reached only when the
\* body raises nothing
Returned(i, call, body, after) ==
    /\ store' = body.st
    /\ IF body.outcome = "ok"
       THEN /\ db' = [db EXCEPT ![i] = close(after)]
            /\ file' = closeFile(after, file)
       ELSE /\ db' = [db EXCEPT ![i] = after]
            /\ file' = file
    /\ last' = [call EXCEPT !.outcome = body.outcome]

Handle(i, call, body) ==
    /\ db[i].alive
    /\ Returned(i, call, body, [connect(db[i]) EXCEPT !.tables = body.tables])

\* ",".join(xs) of strings
RECURSIVE JoinChars(_, _)
JoinChars(sep, xs) ==
    IF xs = <<>> THEN <<>>
    ELSE IF Len(xs) = 1 THEN xs[1]
    ELSE xs[1] \o sep \o JoinChars(sep, Tail(xs))

Declared(table, keys) == \A i \in 1..Len(keys) : keys[i] \in DOMAIN table.fields

\* how a handler ends after its statement: a store error propagates
\* (nothing is committed), otherwise the statement's effect is committed
StoreResult(r, st, tables) ==
    IF ~r.ok THEN Body("StoreError", st, tables, <<>>)
    ELSE Body("ok", r.st, tables, r.rows)

\* create_table that never records the new Table
createResultUnrecorded(r, d, st, tname, primary, fields) ==
    IF ~r.ok THEN Body("StoreError", st, d.tables, <<>>)
    ELSE Body("ok", r.st, d.tables, <<>>)

createResult(r, d, st, tname, primary, fields) ==
    IF ~r.ok THEN Body("StoreError", st, d.tables, <<>>)
    ELSE Body("ok", r.st, (tname :> Table(tname, primary, fields)) @@ d.tables, <<>>)

createBody(d, st, tname, primary, fields) ==
    createResult(ExecCreate(st, tname, primary, fields), d, st, tname, primary, fields)

\* ",".join(values) raises TypeError unless every value is a str
insertRevised(d, st, tname, keys, revised) ==
    IF \E i \in 1..Len(revised) : revised[i].k # "str"
    THEN Body("TypeError", st, d.tables, <<>>)
    ELSE StoreResult(ExecInsert(st, tname, keys,
                                JoinChars(<<",">>, [i \in 1..Len(revised) |-> revised[i].s])),
                     st, d.tables)

insertBody(d, st, tname, keys, values) ==
    IF tname \notin DOMAIN d.tables \/ ~Declared(d.tables[tname], keys)
    THEN Body("KeyError", st, d.tables, <<>>)
    ELSE insertRevised(d, st, tname, keys,
                       [i \in 1..Len(values) |->
                           revise_data(d.tables[tname], keys[i], values[i])])

selectBody(d, st, tname) == StoreResult(ExecSelect(st, tname, <<>>), st, d.tables)

\* key=<revised value>
EqText(table, key, value) ==
    NameChars(key) \o <<"=">> \o Format(revise_data(table, key, value))

\* search that quotes the value itself and skips the lookup in the table map
searchBodyNoLookup(d, st, tname, key, value) ==
    StoreResult(ExecSelect(st, tname,
                           NameChars(key) \o <<"=", Quote>> \o Format(value) \o <<Quote>>),
                st, d.tables)

searchBody(d, st, tname, key, value) ==
    IF tname \notin DOMAIN d.tables \/ ~Declared(d.tables[tname], <<key>>)
    THEN Body("KeyError", st, d.tables, <<>>)
    ELSE StoreResult(ExecSelect(st, tname, EqText(d.tables[tname], key, value)),
                     st, d.tables)

\* key<op><revised str(bound)>
Condition(table, key, op, bound) ==
    NameChars(key) \o op \o Format(revise_data(table, key, PyStr(Format(bound))))

start_condition(table, key, start) == Condition(table, key, <<">", "=">>, start)

\* the end condition written with the start condition's operator
end_conditionAsStart(table, key, end) == Condition(table, key, <<">", "=">>, end)

end_condition(table, key, end) == Condition(table, key, <<"<", "=">>, end)

\* the WHERE text of search_by_range and delete_by_time, from the two
\* conditions
RangeOf(start, end, sc, ec) ==
    IF start.k = "none" THEN ec
    ELSE IF end.k = "none" THEN sc
    ELSE sc \o <<" ", "a", "n", "d", " ">> \o ec

RangeText(table, key, start, end) ==
    RangeOf(start, end, start_condition(table, key, start), end_condition(table, key, end))

rangeBody(d, st, tname, key, start, end) ==
    IF tname \notin DOMAIN d.tables \/ ~Declared(d.tables[tname], <<key>>)
    THEN Body("KeyError", st, d.tables, <<>>)
    ELSE StoreResult(ExecSelect(st, tname, RangeText(d.tables[tname], key, start, end)),
                     st, d.tables)

\* field=str(revised value), joined by ","
update_seq(table, keys, values) ==
    JoinChars(<<",">>,
              [i \in 1..Len(keys) |->
                  NameChars(keys[i]) \o <<"=">>
                      \o Format(revise_data(table, keys[i], values[i]))])

\* the WHERE text of update: empty when key is None
updateWhere(table, key, value) ==
    IF key # NoneKey THEN EqText(table, key, value) ELSE <<>>

updateBody(d, st, tname, keys, values, key, value) ==
    IF \/ tname \notin DOMAIN d.tables
       \/ ~Declared(d.tables[tname], keys)
       \/ (key # NoneKey /\ ~Declared(d.tables[tname], <<key>>))
    THEN Body("KeyError", st, d.tables, <<>>)
    ELSE StoreResult(ExecUpdate(st, tname, update_seq(d.tables[tname], keys, values),
                                updateWhere(d.tables[tname], key, value)),
                     st, d.tables)

deleteBody(d, st, tname, key, value) ==
    IF tname \notin DOMAIN d.tables \/ ~Declared(d.tables[tname], <<key>>)
    THEN Body("KeyError", st, d.tables, <<>>)
    ELSE StoreResult(ExecDelete(st, tname, EqText(d.tables[tname], key, value)),
                     st, d.tables)

deleteByTimeBody(d, st, tname, key, start, end) ==
    IF tname \notin DOMAIN d.tables \/ ~Declared(d.tables[tname], <<key>>)
    THEN Body("KeyError", st, d.tables, <<>>)
    ELSE StoreResult(ExecDelete(st, tname, RangeText(d.tables[tname], key, start, end)),
                     st, d.tables)

-----------------------------------------------------------------------------
(* The calls made on the layer *)

TNames == {"t", "u"}

\* the table names used in the calls that read or change rows by key
RowTables == {"t"}

NameField == Field("name", "TEXT", TRUE, NoOthers)
AgeField == Field("age", "INTEGER", TRUE, NoOthers)

\* the field lists given to create_table; the empty one is malformed
FieldLists == {<<>>, <<NameField, AgeField>>}

StrA == <<"a">>
StrOne == <<"1">>
\* a text value that holds quote characters: 'or'1
StrQuoted == <<"'", "o", "r", "'", "1">>

\* keys and values of insert: text, text with quotes, an INTEGER given as
\* digits and as an int, an undeclared field
InsertArgs ==
    {[keys |-> <<"name">>, values |-> <<PyStr(StrA)>>],
     [keys |-> <<"name">>, values |-> <<PyStr(StrQuoted)>>],
     [keys |-> <<"name", "age">>, values |-> <<PyStr(StrA), PyStr(StrOne)>>],
     [keys |-> <<"name", "age">>, values |-> <<PyStr(StrA), PyInt(2)>>],
     [keys |-> <<"zz">>, values |-> <<PyStr(StrA)>>]}

\* key and value of search and delete
WhereArgs ==
    {[key |-> "name", value |-> PyStr(StrA)],
     [key |-> "name", value |-> PyStr(StrQuoted)],
     [key |-> "age", value |-> PyInt(1)],
     [key |-> "zz", value |-> PyStr(StrA)]}

\* keys, values, key and value of update: key may be None
UpdateArgs ==
    {[keys |-> <<k>>, values |-> <<IF k = "name" THEN PyStr(StrA) ELSE PyInt(2)>>,
      key |-> w.key, value |-> w.value] :
        k \in {"name", "age"},
        w \in {x \in WhereArgs : x.key # "zz"} \cup {[key |-> NoneKey, value |-> PyNone]}}
      \cup {[keys |-> <<"zz">>, values |-> <<PyStr(StrA)>>, key |-> NoneKey, value |-> PyNone],
            [keys |-> <<"name">>, values |-> <<PyStr(StrA)>>, key |-> "zz", value |-> PyStr(StrA)]}

RangeBounds == {PyNone, PyInt(1), PyInt(2)}

\* key, start and end of search_by_range and delete_by_time
RangeArgs ==
    {[key |-> "age", start |-> s, end |-> e] : s \in RangeBounds, e \in RangeBounds}
      \cup {[key |-> "zz", start |-> PyInt(1), end |-> PyInt(2)]}

\* time_key, start and end of delete_by_time
TimeArgs ==
    {[key |-> "age", start |-> PyNone, end |-> PyInt(1)],
     [key |-> "age", start |-> PyInt(2), end |-> PyNone],
     [key |-> "age", start |-> PyInt(1), end |-> PyInt(1)],
     [key |-> "age", start |-> PyNone, end |-> PyNone],
     [key |-> "zz", start |-> PyInt(1), end |-> PyInt(2)]}

-----------------------------------------------------------------------------
(* Actions *)

Constructed(i, opened) ==
    /\ db' = [db EXCEPT ![i] = close(opened)]
    /\ file' = closeFile(opened, file)
    /\ store' = store
    /\ last' = Call(i, "init")

\* Database(path, config_path): a new object takes slot i
Construct(i) ==
    Constructed(i, [alive |-> TRUE, tables |-> initTables(file), conn |-> "open"])

CreateTable(i) ==
    \E tname \in TNames, fields \in FieldLists :
        Handle(i, Call(i, "create_table"),
               createBody(db[i], store, tname, id_as_primary, fields))

RowLimit == IF Cardinality(DOMAIN db) > 1 THEN MaxRowsShared ELSE MaxRows

\* the model's bounds stop an insert that would add a row beyond them
InsertCall(i, tname, body) ==
    /\ body.outcome = "ok" =>
         StoredRows(store) < RowLimit /\ NextId(store[tname]) <= MaxId
    /\ Handle(i, Call(i, "insert"), body)

Insert(i) ==
    \E tname \in RowTables, a \in InsertArgs :
        InsertCall(i, tname, insertBody(db[i], store, tname, a.keys, a.values))

Select(i) ==
    \E tname \in TNames :
        Handle(i, Call(i, "select"), selectBody(db[i], store, tname))

Search(i) ==
    \E tname \in RowTables, a \in WhereArgs :
        Handle(i, Call(i, "search"), searchBody(db[i], store, tname, a.key, a.value))

SearchByRange(i) ==
    \E tname \in RowTables, a \in RangeArgs :
        Handle(i, Call(i, "search_by_range"),
               rangeBody(db[i], store, tname, a.key, a.start, a.end))

Update(i) ==
    \E tname \in RowTables, a \in UpdateArgs :
        Handle(i, Call(i, "update"),
               updateBody(db[i], store, tname, a.keys, a.values, a.key, a.value))

Delete(i) ==
    \E tname \in RowTables, a \in WhereArgs :
        Handle(i, Call(i, "delete"), deleteBody(db[i], store, tname, a.key, a.value))

DeleteByTime(i) ==
    \E tname \in RowTables, a \in TimeArgs :
        Handle(i, Call(i, "delete_by_time"),
               deleteByTimeBody(db[i], store, tname, a.key, a.start, a.end))

InitWith(slots) ==
    /\ store = EmptyMap
    /\ file = NoFile
    /\ db = [i \in slots |-> NoDatabase]
    /\ last = Call(0, "none")

\* one process: slot 1 holds the only Database there is at any time
Init == InitWith({1})

\* two Database objects over the same store and the same side file
InitShared == InitWith({1, 2})

Next ==
    \/ \E i \in DOMAIN db : Construct(i)
    \/ \E i \in DOMAIN db : CreateTable(i)
    \/ \E i \in DOMAIN db : Insert(i)
    \/ \E i \in DOMAIN db : Select(i)
    \/ \E i \in DOMAIN db : Search(i)
    \/ \E i \in DOMAIN db : SearchByRange(i)
    \/ \E i \in DOMAIN db : Update(i)
    \/ \E i \in DOMAIN db : Delete(i)
    \/ \E i \in DOMAIN db : DeleteByTime(i)

Spec == Init /\ [][Next]_vars

SpecShared == InitShared /\ [][Next]_vars

-----------------------------------------------------------------------------
(* Properties *)

Slots == DOMAIN db
Live == {i \in Slots : db[i].alive}
FileNames == {p[1] : p \in file.items}
Returned_ok == last.outcome = "ok"

\* C1: the table names of the in-memory map are the tables created in the
\* store; a create_table that succeeds adds one name to both, one that fails
\* adds it to neither, and no step removes or replaces an entry of the map.
C1_MapMirrorsStore ==
    /\ [](\A i \in Live : DOMAIN db[i].tables = DOMAIN store)
    /\ [][\A i \in Live :
            /\ (last'.op = "create_table" /\ last'.outcome = "ok") =>
                 \E n \in TNames :
                    /\ n \notin DOMAIN store
                    /\ DOMAIN store' = DOMAIN store \cup {n}
                    /\ DOMAIN db'[i].tables = DOMAIN db[i].tables \cup {n}
            /\ (last'.op = "create_table" /\ last'.outcome # "ok") =>
                 /\ DOMAIN store' = DOMAIN store
                 /\ DOMAIN db'[i].tables = DOMAIN db[i].tables
            /\ \A n \in DOMAIN db[i].tables :
                 n \in DOMAIN db'[i].tables /\ db'[i].tables[n] = db[i].tables[n]]_vars

\* a create_table has failed on a Database that holds both tables
C1_Witness ==
    /\ last.op = "create_table" /\ last.outcome = "StoreError"
    /\ \E i \in Live : DOMAIN db[i].tables = TNames /\ DOMAIN store = TNames

\* C2: once a Database exists the side file exists and holds exactly its
\* table map, whatever calls returned since; a Database constructed against
\* the side file gets the table names the file holds, and the empty map when
\* there is no file.
C2_FileHoldsMap ==
    /\ [](\A i \in Live :
            /\ file.exists
            /\ file.items = {<<n, db[i].tables[n]>> : n \in DOMAIN db[i].tables})
    /\ [][last'.op = "init" =>
            /\ file'.exists
            /\ IF file.exists
               THEN DOMAIN db'[last'.inst].tables = FileNames
               ELSE db'[last'.inst].tables = EmptyMap]_vars

\* a Database constructed against the side file has restored both tables
C2_Witness ==
    /\ last.op = "init"
    /\ DOMAIN db[last.inst].tables = TNames
    /\ FileNames = TNames

\* C3: between two calls no connection is open.
C3_NoOpenConnection == \A i \in Slots : db[i].conn = "closed"

\* C4: when a Database returns from a call, a table of the store that its
\* own map lacks is absent from the side file: the file is that map, and
\* nothing of what another Database wrote is kept.
C4_LastWriterWins ==
    \A j \in Live : \A n \in DOMAIN store :
        (last.inst = j /\ Returned_ok /\ n \notin DOMAIN db[j].tables) => n \notin FileNames

\* a table created through one Database is gone from the side file after a
\* read-only call of the other
C4_Witness ==
    \E i \in Live, j \in Live, n \in DOMAIN store :
        /\ i # j
        /\ n \in DOMAIN db[i].tables
        /\ n \notin DOMAIN db[j].tables
        /\ n \notin FileNames
        /\ last = [inst |-> j, op |-> "select", outcome |-> "ok"]

\* the calls of Database i on table tname are made with the table in its map
\* and in the store
Known(i, tname) == tname \in DOMAIN db[i].tables /\ tname \in DOMAIN store

\* each value has the Python type of its column: str for TEXT, int for INTEGER
TypesMatch(table, keys, values) ==
    \A k \in 1..Len(keys) :
        /\ keys[k] \in DOMAIN table.fields
        /\ values[k].k = (IF table.fields[keys[k]].dtype = "TEXT" THEN "str" ELSE "int")

ColIndex(t, c) == CHOOSE k \in 1..Len(t.cols) : t.cols[k].name = c

\* C5: on a table just created, insert(name, keys, values) with values of the
\* columns' types returns normally, and select(name) then returns exactly one
\* tuple, which holds the inserted values.
C5_RoundTrip ==
    \A i \in Live, tname \in RowTables, a \in InsertArgs :
        (/\ Known(i, tname)
         /\ store[tname].rows = {}
         /\ TypesMatch(db[i].tables[tname], a.keys, a.values)) =>
            LET ins == insertBody(db[i], store, tname, a.keys, a.values)
                sel == selectBody(db[i], ins.st, tname)
            IN  /\ ins.outcome = "ok"
                /\ sel.outcome = "ok"
                /\ Len(sel.rows) = 1
                /\ \A k \in 1..Len(a.keys) :
                      sel.rows[1][ColIndex(store[tname], a.keys[k])] = a.values[k]

InRange(v, start, end) ==
    /\ v.k = "int"
    /\ start.k = "none" \/ start.n <= v.n
    /\ end.k = "none" \/ v.n <= end.n

\* C6: on an INTEGER key, with at least one bound given, search_by_range
\* returns exactly the rows whose key lies within the bounds, both ends
\* inclusive, a missing bound not limiting, and leaves the store unchanged.
C6_RangeExact ==
    \A i \in Live, tname \in RowTables, a \in RangeArgs :
        (/\ Known(i, tname)
         /\ a.key \in DOMAIN db[i].tables[tname].fields
         /\ db[i].tables[tname].fields[a.key].dtype = "INTEGER"
         /\ ~(a.start.k = "none" /\ a.end.k = "none")) =>
            LET got == rangeBody(db[i], store, tname, a.key, a.start, a.end)
                want == {r \in store[tname].rows : InRange(r[a.key], a.start, a.end)}
            IN  /\ got.outcome = "ok"
                /\ got.st = store
                /\ Len(got.rows) = Cardinality(want)
                /\ {got.rows[k] : k \in 1..Len(got.rows)}
                      = {RowTuple(store[tname], r) : r \in want}

\* a search_by_range has returned in a state where a range with both bounds
\* selects some rows of the table and not others
C6_Witness ==
    /\ last.op = "search_by_range" /\ last.outcome = "ok"
    /\ \E i \in Live, tname \in RowTables, a \in RangeArgs :
          /\ Known(i, tname)
          /\ a.key = "age" /\ a.start.k = "int" /\ a.end.k = "int"
          /\ LET n == Len(rangeBody(db[i], store, tname, a.key, a.start, a.end).rows)
             IN  0 < n /\ n < Cardinality(store[tname].rows)

\* C7: after delete(name, key, value) returns, search(name, key, value)
\* returns nothing, and every row whose key column differs from value is
\* still there.
C7_DeleteExact ==
    \A i \in Live, tname \in RowTables, a \in WhereArgs :
        (Known(i, tname) /\ a.key \in DOMAIN db[i].tables[tname].fields) =>
            LET del == deleteBody(db[i], store, tname, a.key, a.value)
            IN  del.outcome = "ok" =>
                  /\ searchBody(db[i], del.st, tname, a.key, a.value).rows = <<>>
                  /\ \A r \in store[tname].rows :
                        FromSql(r[a.key]) # a.value => r \in del.st[tname].rows

\* C8: update(name, keys, values, key, value) sets the listed columns in
\* exactly the rows whose key column equals value (in every row when key is
\* None), and changes no other row, no other column, nor the number of rows
\* or the table map.
C8_UpdateExact ==
    \A i \in Live, tname \in RowTables, a \in UpdateArgs :
        (/\ Known(i, tname)
         /\ \A k \in 1..Len(a.keys) : a.keys[k] \in DOMAIN db[i].tables[tname].fields
         /\ a.key = NoneKey \/ a.key \in DOMAIN db[i].tables[tname].fields) =>
            LET upd == updateBody(db[i], store, tname, a.keys, a.values, a.key, a.value)
                hit(r) == a.key = NoneKey \/ FromSql(r[a.key]) = a.value
            IN  upd.outcome = "ok" =>
                  /\ upd.tables = db[i].tables
                  /\ Cardinality(upd.st[tname].rows) = Cardinality(store[tname].rows)
                  /\ \A r \in store[tname].rows :
                        \E q \in upd.st[tname].rows :
                           /\ q["id"] = r["id"]
                           /\ \A c \in DOMAIN r :
                                IF hit(r) /\ \E k \in 1..Len(a.keys) : a.keys[k] = c
                                THEN \E k \in 1..Len(a.keys) :
                                        a.keys[k] = c /\ FromSql(q[c]) = a.values[k]
                                ELSE q[c] = r[c]

AllTables == UNION {{db[i].tables[n] : n \in DOMAIN db[i].tables} : i \in Live}

\* C9 as stated: the primary key made by id_as_primary() is named "id", of
\* type "INTEGER", not nullable, has "PRIMARY KEY" as its third token and
\* renders as "id INTEGER PRIMARY KEY".
C9_RendersWithoutNotNull ==
    \A t \in AllTables :
        /\ t.primary.name = "id" /\ t.primary.dtype = "INTEGER" /\ ~t.primary.null
        /\ to_list(t.primary)[3] = "PRIMARY KEY"
        /\ to_str(t.primary) = "id INTEGER PRIMARY KEY"
        /\ store[t.name].sql[1] = "id INTEGER PRIMARY KEY"

\* C9 as amended: the primary key made by id_as_primary() is named "id", of
\* type "INTEGER", not nullable, has "PRIMARY KEY" as its third token and
\* "NOT NULL" as its fourth, and renders as "id INTEGER PRIMARY KEY NOT NULL".
C9_RendersWithNotNull ==
    \A t \in AllTables :
        /\ t.primary.name = "id" /\ t.primary.dtype = "INTEGER" /\ ~t.primary.null
        /\ to_list(t.primary) = <<"id", "INTEGER", "PRIMARY KEY", "NOT NULL">>
        /\ to_str(t.primary) = "id INTEGER PRIMARY KEY NOT NULL"
        /\ store[t.name].sql[1] = "id INTEGER PRIMARY KEY NOT NULL"

\* a table has been created with the primary key of id_as_primary()
C9_Witness ==
    /\ last.op = "create_table" /\ last.outcome = "ok"
    /\ \E t \in AllTables : t.primary = id_as_primary

\* the body of every call but select on table tname with key (or field) key
KeyedBodies(i, tname, key) ==
    {insertBody(db[i], store, tname, <<key>>, <<PyStr(StrA)>>),
     searchBody(db[i], store, tname, key, PyStr(StrA)),
     rangeBody(db[i], store, tname, key, PyInt(1), PyInt(2)),
     updateBody(db[i], store, tname, <<key>>, <<PyStr(StrA)>>, NoneKey, PyNone),
     updateBody(db[i], store, tname, <<"name">>, <<PyStr(StrA)>>, key, PyStr(StrA)),
     deleteBody(db[i], store, tname, key, PyStr(StrA)),
     deleteByTimeBody(db[i], store, tname, key, PyInt(1), PyInt(2))}

\* C10: insert, search, search_by_range, update, delete and delete_by_time on
\* a table absent from the map, or with a key that is no declared column,
\* end with KeyError, and a call that ends with KeyError changes neither the
\* store nor the table map nor the side file.
C10_KeyErrorChangesNothing ==
    /\ [](\A i \in Live, tname \in RowTables, key \in {"name", "age", "zz"} :
            (\/ tname \notin DOMAIN db[i].tables
             \/ key \notin DOMAIN db[i].tables[tname].fields) =>
                \A b \in KeyedBodies(i, tname, key) :
                    b.outcome = "KeyError" /\ b.st = store /\ b.tables = db[i].tables)
    /\ [][last'.outcome = "KeyError" =>
            /\ store' = store
            /\ file' = file
            /\ \A i \in Slots : db'[i].tables = db[i].tables]_vars

\* a call has ended with KeyError on an undeclared key while the table
\* holds rows
C10_Witness ==
    /\ last.outcome = "KeyError"
    /\ \E tname \in RowTables :
          /\ Known(last.inst, tname)
          /\ store[tname].rows # {}

=============================================================================
